---- MODULE Spec2Model ----
(***************************************************************************)
(* State-machine model of src/script.js: the book catalogue with a global  *)
(* tag palette, kept in memory (books, tags, lastSortKey, sortOrder) and   *)
(* in two localStorage slots (books_v1, tags_v1).                          *)
(*                                                                         *)
(* JavaScript strings are sequences of UTF-16 code units (naturals); a     *)
(* JSON text is modelled by the value tree it denotes, so JSON.parse is    *)
(* the identity on well-formed texts and JSON.stringify is the identity    *)
(* except where JavaScript's is not (a non-finite number becomes null).    *)
(***************************************************************************)
EXTENDS Integers, Sequences, FiniteSets, TLC

VARIABLES books, tags, lastSortKey, sortOrder, lsBooks, lsTags, editingIndex, alertMsg

vars == <<books, tags, lastSortKey, sortOrder, lsBooks, lsTags, editingIndex, alertMsg>>

\* Cap on the length of the book list (books.push is unbounded in the code).
MaxBooks == 2

-----------------------------------------------------------------------------
(* Strings *)

\* String.prototype.trim for the white space the inputs use (U+0020).
RECURSIVE TrimLeft(_)
TrimLeft(s) == IF s # <<>> /\ Head(s) = 32 THEN TrimLeft(Tail(s)) ELSE s

RECURSIVE TrimRight(_)
TrimRight(s) ==
    IF s # <<>> /\ s[Len(s)] = 32 THEN TrimRight(SubSeq(s, 1, Len(s) - 1)) ELSE s

Trim(s) == TrimRight(TrimLeft(s))

\* String.prototype.toLowerCase on ASCII letters.
LowerChar(c) == IF c >= 65 /\ c <= 90 THEN c + 32 ELSE c

toLowerCase(s) == [i \in 1..Len(s) |-> LowerChar(s[i])]

\* The relational operators < and > on strings: code-unit lexicographic order.
\* -1, 0 or 1 as a is below, equal to or above b.
RECURSIVE CodeUnitCompare(_, _)
CodeUnitCompare(a, b) ==
    IF a = <<>> /\ b = <<>> THEN 0
    ELSE IF a = <<>> THEN -1
    ELSE IF b = <<>> THEN 1
    ELSE IF Head(a) < Head(b) THEN -1
    ELSE IF Head(a) > Head(b) THEN 1
    ELSE CodeUnitCompare(Tail(a), Tail(b))

\* Tie-break of the collation between strings equal up to case: at the first
\* difference the lower-case letter sorts first.
RECURSIVE CaseCompare(_, _)
CaseCompare(a, b) ==
    IF a = <<>> \/ b = <<>> THEN 0
    ELSE IF Head(a) = Head(b) THEN CaseCompare(Tail(a), Tail(b))
    ELSE IF Head(a) > Head(b) THEN -1 ELSE 1

\* String.prototype.localeCompare on ASCII letters and spaces (the root
\* collation): letters compare without case first, case breaks ties.
localeCompare(a, b) ==
    LET p == CodeUnitCompare(toLowerCase(a), toLowerCase(b))
    IN  IF p # 0 THEN p ELSE CaseCompare(a, b)

\* Number.prototype.toString for a non-negative integer.
RECURSIVE DecStr(_)
DecStr(n) == IF n < 10 THEN <<48 + n>> ELSE Append(DecStr(n \div 10), 48 + (n % 10))

IsDigits(s) == s # <<>> /\ \A i \in 1..Len(s) : s[i] >= 48 /\ s[i] <= 57

RECURSIVE DigitsValue(_)
DigitsValue(s) ==
    IF s = <<>> THEN 0 ELSE 10 * DigitsValue(SubSeq(s, 1, Len(s) - 1)) + (s[Len(s)] - 48)

\* The text "Infinity".
InfinityText == <<73, 110, 102, 105, 110, 105, 116, 121>>

-----------------------------------------------------------------------------
(* Year values: "" or a string, a finite number, Infinity, or null (what a *)
(* non-finite number is after a JSON round trip).                          *)

StrYear(s) == [t |-> "str", s |-> s, n |-> 0]
NumYear(n) == [t |-> "num", s |-> <<>>, n |-> n]
InfYear    == [t |-> "inf", s |-> <<>>, n |-> 0]
NullYear   == [t |-> "null", s |-> <<>>, n |-> 0]

\* saveForm's year: yearVal === "" ? "" : (isNaN(Number(yearVal)) ? yearVal : Number(yearVal)),
\* with Number() on the inputs used here: white space is trimmed, an empty
\* text is 0, decimal digits are their value, "Infinity" is Infinity, and
\* anything else is NaN.
NormalizeYear(yearVal) ==
    LET t == Trim(yearVal)
    IN  IF yearVal = <<>> THEN StrYear(<<>>)
        ELSE IF t = <<>> THEN NumYear(0)
        ELSE IF IsDigits(t) THEN NumYear(DigitsValue(t))
        ELSE IF t = InfinityText THEN InfYear
        ELSE StrYear(yearVal)

\* (a[key] ?? "").toString() for the year field.
YearToString(y) ==
    CASE y.t = "str"  -> y.s
      [] y.t = "num"  -> DecStr(y.n)
      [] y.t = "inf"  -> InfinityText
      [] y.t = "null" -> <<>>

-----------------------------------------------------------------------------
(* Tags and colors *)

Math    == <<77, 97, 116, 104>>
Physics == <<80, 104, 121, 115, 105, 99, 115>>
Biology == <<66, 105, 111, 108, 111, 103, 121>>

HexColor(h) == [fmt |-> "hex", hex |-> h, hue |-> 0]
HslColor(h) == [fmt |-> "hsl", hex |-> "", hue |-> h]
\* A tag entry of a backup document that has no (or a falsy) color field.
NoColor     == [fmt |-> "none", hex |-> "", hue |-> 0]

PREDEFINED_TAGS ==
    << [name |-> Math,    color |-> HexColor("#2f9e44")],
       [name |-> Physics, color |-> HexColor("#d9480f")],
       [name |-> Biology, color |-> HexColor("#8d6e21")] >>

\* One round of h = (h * 31 + c) | 0 on a signed 32-bit h, computed on the
\* two 16-bit halves of h so that no intermediate value leaves 32 bits.
HashStep(h, c) ==
    LET hi  == h \div 65536
        lo  == h % 65536
        low == lo * 31 + c
        hi2 == hi * 31 + (low \div 65536)
        hi3 == ((hi2 + 32768) % 65536) - 32768
    IN  hi3 * 65536 + (low % 65536)

RECURSIVE HashFrom(_, _)
HashFrom(h, s) == IF s = <<>> THEN h ELSE HashFrom(HashStep(h, Head(s)), Tail(s))

\* Math.abs(h) % 360; Math.abs(-2^31) is 2^31, which is 128 modulo 360.
HueOf(h) ==
    IF h >= 0 THEN h % 360
    ELSE IF h \div 65536 = -32768 /\ h % 65536 = 0 THEN 128
    ELSE (0 - h) % 360

colorForTagName(name) == HslColor(HueOf(HashFrom(0, name)))

TagNames(ts) == {ts[i].name : i \in 1..Len(ts)}

\* tags.find(t => t.name === name) finds something.
findTagByName(ts, name) == name \in TagNames(ts)

\* Array.prototype.sort is stable: x goes before the first element it is
\* strictly below.
RECURSIVE InsertTag(_, _)
InsertTag(ts, x) ==
    IF ts = <<>> THEN <<x>>
    ELSE IF localeCompare(x.name, Head(ts).name) < 0 THEN <<x>> \o ts
    ELSE <<Head(ts)>> \o InsertTag(Tail(ts), x)

RECURSIVE SortTags(_)
SortTags(ts) ==
    IF ts = <<>> THEN <<>> ELSE InsertTag(SortTags(SubSeq(ts, 1, Len(ts) - 1)), ts[Len(ts)])

RECURSIVE InsertName(_, _)
InsertName(ns, x) ==
    IF ns = <<>> THEN <<x>>
    ELSE IF localeCompare(x, Head(ns)) < 0 THEN <<x>> \o ns
    ELSE <<Head(ns)>> \o InsertName(Tail(ns), x)

RECURSIVE SortNames(_)
SortNames(ns) ==
    IF ns = <<>> THEN <<>> ELSE InsertName(SortNames(SubSeq(ns, 1, Len(ns) - 1)), ns[Len(ns)])

\* Array.from(new Set(checked)): first occurrences, in order.
RECURSIVE Dedup(_)
Dedup(ns) ==
    IF ns = <<>> THEN <<>>
    ELSE LET front == Dedup(SubSeq(ns, 1, Len(ns) - 1))
             x     == ns[Len(ns)]
         IN  IF \E i \in 1..Len(front) : front[i] = x THEN front ELSE Append(front, x)

-----------------------------------------------------------------------------
(* localStorage and JSON *)

\* A storage slot: absent (getItem gives null), or the JSON text of a value.
Absent == [present |-> FALSE, val |-> <<>>]
Stored(v) == [present |-> TRUE, val |-> v]

\* JSON.stringify of a year: a non-finite number is written as null.
JsonYear(y) == IF y.t = "inf" THEN NullYear ELSE y

JsonBook(b) == [b EXCEPT !.year = JsonYear(b.year)]

\* JSON.parse(JSON.stringify(books)).
JsonBooks(bs) == [i \in 1..Len(bs) |-> JsonBook(bs[i])]

\* localStorage.setItem(STORAGE_BOOKS, JSON.stringify(books))
saveBooks(bs) == Stored(JsonBooks(bs))

\* localStorage.setItem(STORAGE_TAGS, JSON.stringify(tags))
saveTags(ts) == Stored(ts)

loadBooks(slot) == IF slot.present THEN slot.val ELSE <<>>

\* The tags read at start-up and the slot as loadTags leaves it.
loadTags(slot) ==
    IF slot.present /\ Len(slot.val) > 0
    THEN [tags |-> SortTags(slot.val), ls |-> slot]
    ELSE LET base == SortTags(PREDEFINED_TAGS)
         IN  [tags |-> base, ls |-> Stored(base)]

\* ensureTagExists(name) on a tag list and its slot: the lists afterwards.
ensureTagExists(ts, ls, name) ==
    LET n == Trim(name)
    IN  IF n = <<>> THEN [tags |-> ts, ls |-> ls]
        ELSE IF findTagByName(ts, n) THEN [tags |-> ts, ls |-> ls]
        ELSE LET sorted == SortTags(Append(ts, [name |-> n, color |-> colorForTagName(n)]))
             IN  [tags |-> sorted, ls |-> saveTags(sorted)]

RECURSIVE EnsureAll(_, _, _)
EnsureAll(ts, ls, names) ==
    IF names = <<>> THEN [tags |-> ts, ls |-> ls]
    ELSE LET r == ensureTagExists(ts, ls, Head(names))
         IN  EnsureAll(r.tags, r.ls, Tail(names))

\* renderTagControls sorts the global tag list in place before drawing it.
renderTagControls(ts) == SortTags(ts)

\* init(): the predefined tags that are missing are pushed, the list is
\* sorted and saved.
RECURSIVE PushMissing(_, _)
PushMissing(ts, pre) ==
    IF pre = <<>> THEN ts
    ELSE PushMissing(IF findTagByName(ts, Head(pre).name) THEN ts ELSE Append(ts, Head(pre)),
                     Tail(pre))

init(ts) == SortTags(PushMissing(ts, PREDEFINED_TAGS))

-----------------------------------------------------------------------------
(* Books *)

NULL == "null"

\* (a[key] ?? "").toString().toLowerCase()
SortField(b, key) ==
    toLowerCase(IF key = "year" THEN YearToString(b.year) ELSE b[key])

\* The comparator of sortBy: negative, zero or positive.
SortCompare(a, b, key, order) ==
    LET c == CodeUnitCompare(SortField(a, key), SortField(b, key))
    IN  IF c < 0 THEN (0 - 1) * order ELSE IF c > 0 THEN 1 * order ELSE 0

RECURSIVE InsertBook(_, _, _, _)
InsertBook(bs, x, key, order) ==
    IF bs = <<>> THEN <<x>>
    ELSE IF SortCompare(x, Head(bs), key, order) < 0 THEN <<x>> \o bs
    ELSE <<Head(bs)>> \o InsertBook(Tail(bs), x, key, order)

\* books.sort(comparator): the stable sort.
RECURSIVE SortBooks(_, _, _)
SortBooks(bs, key, order) ==
    IF bs = <<>> THEN <<>>
    ELSE InsertBook(SortBooks(SubSeq(bs, 1, Len(bs) - 1), key, order), bs[Len(bs)], key, order)

\* books.splice(index, 1): a negative index counts from the end, an index
\* beyond the end removes nothing.
Splice(bs, index) ==
    LET start == IF index < 0 THEN (IF Len(bs) + index < 0 THEN 0 ELSE Len(bs) + index)
                 ELSE (IF index > Len(bs) THEN Len(bs) ELSE index)
    IN  IF start >= Len(bs) THEN bs
        ELSE SubSeq(bs, 1, start) \o SubSeq(bs, start + 2, Len(bs))

\* b.tags.filter(t => t !== tagName)
WithoutTag(b, tagName) ==
    [b EXCEPT !.tags = SelectSeq(b.tags, LAMBDA t : t # tagName)]

-----------------------------------------------------------------------------
(* Messages of alert() *)

NoAlert          == ""
ValidationAlert  == "Please provide at least Title and Author."
NotFoundAlert    == "Book not found."
ImportOkAlert    == "Import successful."
ImportErrorAlert == "Invalid JSON file."

-----------------------------------------------------------------------------
(* Inputs *)

CustomTag == <<97>>

\* f_title: " ", "a", " B"; f_author: "", "Z ".
TitleInputs  == { <<32>>, <<97>>, <<32, 66>> }
\* The titles of the specification of all handlers together.
CoreTitleInputs == { <<32>>, <<97>> }
AuthorInputs == { <<>>, <<90, 32>> }
\* f_year: "7", "Infinity"
YearInputs   == { <<55>>, InfinityText }
LinkInputs   == { <<>> }
\* The names whose checkboxes are ticked in the form.
CheckedInputs == { {}, {Math} }
\* newTagInput
NewTagInputs == { <<>>, <<32, 97, 32>> }
\* The tag names deleteTag is asked for.
DeleteTagInputs == { Math, CustomTag }
SortKeys == { "title", "year" }
IndexInputs == (0 - 1)..MaxBooks

\* Backup documents given to importBackup.
Entry(kind, name, color) == [kind |-> kind, name |-> name, color |-> color]

DocBook == [title |-> <<66>>, author |-> <<90>>, year |-> NumYear(7), link |-> <<>>,
            tags |-> <<CustomTag>>]

NotJson == [json |-> FALSE, object |-> FALSE, hasBooks |-> FALSE, books |-> <<>>,
            hasTags |-> FALSE, tags |-> <<>>]
JsonNull == [NotJson EXCEPT !.json = TRUE]
Doc(hasBooks, bs, hasTags, ts) ==
    [json |-> TRUE, object |-> TRUE, hasBooks |-> hasBooks, books |-> bs,
     hasTags |-> hasTags, tags |-> ts]

ImportDocs ==
    { NotJson,
      JsonNull,
      \* {"books": [b], "tags": [null]}
      Doc(TRUE, <<DocBook>>, TRUE, <<Entry("null", <<>>, NoColor)>>),
      \* {"books": [b]}
      Doc(TRUE, <<DocBook>>, FALSE, <<>>),
      \* {"tags": ["a", {"name": "a", "color": "#123456"}]}
      Doc(FALSE, <<>>, TRUE, << Entry("string", CustomTag, NoColor),
                                Entry("object", CustomTag, HexColor("#123456")) >>),
      \* {"books": [], "tags": []}
      Doc(TRUE, <<>>, TRUE, <<>>) }

-----------------------------------------------------------------------------
(* Start-up: the top-level code of the script, that is loadBooks(),        *)
(* loadTags(), lastSortKey = null, sortOrder = 1 and init().               *)

Startup(slotBooks, slotTags) ==
    LET loaded == loadTags(slotTags)
        ts     == init(loaded.tags)
    IN  /\ books' = loadBooks(slotBooks)
        /\ tags' = renderTagControls(ts)
        /\ lsBooks' = slotBooks
        /\ lsTags' = saveTags(ts)
        /\ lastSortKey' = NULL
        /\ sortOrder' = 1
        /\ editingIndex' = 0 - 1
        /\ alertMsg' = NoAlert

\* The first run, on an empty localStorage.
Init ==
    /\ books = <<>>
    /\ tags = init(loadTags(Absent).tags)
    /\ lsBooks = Absent
    /\ lsTags = saveTags(init(loadTags(Absent).tags))
    /\ lastSortKey = NULL
    /\ sortOrder = 1
    /\ editingIndex = 0 - 1
    /\ alertMsg = NoAlert

\* The page is loaded again: the script runs from the top on what
\* localStorage holds.
Reload == Startup(lsBooks, lsTags)

-----------------------------------------------------------------------------
(* Handlers *)

addCustomTagFromInput(val) ==
    LET v == Trim(val)
        r == IF v = <<>> THEN [tags |-> tags, ls |-> lsTags]
             ELSE ensureTagExists(tags, lsTags, v)
    IN  /\ tags' = r.tags
        /\ lsTags' = r.ls
        /\ alertMsg' = NoAlert
        /\ UNCHANGED <<books, lastSortKey, sortOrder, lsBooks, editingIndex>>

\* openForm(mode, index): "add" is called with the default index -1.
openForm(mode, index) ==
    /\ mode = "add" => index = 0 - 1
    /\ tags' = renderTagControls(tags)
    /\ IF mode = "add" \/ (index >= 0 /\ index < Len(books))
       THEN editingIndex' = index /\ alertMsg' = NoAlert
       ELSE editingIndex' = 0 - 1 /\ alertMsg' = NotFoundAlert
    /\ UNCHANGED <<books, lastSortKey, sortOrder, lsBooks, lsTags>>

closeForm ==
    /\ editingIndex' = 0 - 1
    /\ alertMsg' = NoAlert
    /\ UNCHANGED <<books, tags, lastSortKey, sortOrder, lsBooks, lsTags>>

\* The values of the ticked .formTag checkboxes, in the order of the list.
CheckedValues(ts, names) ==
    SelectSeq([i \in 1..Len(ts) |-> ts[i].name], LAMBDA n : n \in names)

\* saveForm with the required fields tested before they are trimmed.
saveForm_untrimmedCheck(titleVal, authorVal, yearVal, linkVal, checkedNames) ==
    LET idx        == editingIndex
        uniqueTags == Dedup(CheckedValues(tags, checkedNames))
        ensured    == EnsureAll(tags, lsTags, uniqueTags)
        bookObj    == [title |-> Trim(titleVal), author |-> Trim(authorVal),
                       year |-> NormalizeYear(yearVal), link |-> Trim(linkVal),
                       tags |-> SortNames(uniqueTags)]
    IN  /\ checkedNames \subseteq TagNames(tags)
        /\ IF titleVal = <<>> \/ authorVal = <<>>
           THEN /\ alertMsg' = ValidationAlert
                /\ UNCHANGED <<books, tags, lastSortKey, sortOrder, lsBooks, lsTags,
                               editingIndex>>
           ELSE /\ (idx >= 0 /\ idx < Len(books)) \/ Len(books) < MaxBooks
                /\ books' = IF idx >= 0 /\ idx < Len(books)
                            THEN [books EXCEPT ![idx + 1] = bookObj]
                            ELSE Append(books, bookObj)
                /\ lsBooks' = saveBooks(books')
                /\ tags' = renderTagControls(ensured.tags)
                /\ lsTags' = ensured.ls
                /\ editingIndex' = 0 - 1
                /\ alertMsg' = NoAlert
                /\ UNCHANGED <<lastSortKey, sortOrder>>

saveForm(titleVal, authorVal, yearVal, linkVal, checkedNames) ==
    LET idx        == editingIndex
        title      == Trim(titleVal)
        author     == Trim(authorVal)
        year       == NormalizeYear(yearVal)
        link       == Trim(linkVal)
        checked    == CheckedValues(tags, checkedNames)
        uniqueTags == Dedup(checked)
        ensured    == EnsureAll(tags, lsTags, uniqueTags)
        bookObj    == [title |-> title, author |-> author, year |-> year, link |-> link,
                       tags |-> SortNames(uniqueTags)]
    IN  /\ checkedNames \subseteq TagNames(tags)
        /\ IF title = <<>> \/ author = <<>>
           THEN /\ alertMsg' = ValidationAlert
                /\ UNCHANGED <<books, tags, lastSortKey, sortOrder, lsBooks, lsTags,
                               editingIndex>>
           ELSE /\ (idx >= 0 /\ idx < Len(books)) \/ Len(books) < MaxBooks
                /\ books' = IF idx >= 0 /\ idx < Len(books)
                            THEN [books EXCEPT ![idx + 1] = bookObj]
                            ELSE Append(books, bookObj)
                /\ lsBooks' = saveBooks(books')
                /\ tags' = renderTagControls(ensured.tags)
                /\ lsTags' = ensured.ls
                /\ editingIndex' = 0 - 1
                /\ alertMsg' = NoAlert
                /\ UNCHANGED <<lastSortKey, sortOrder>>

deleteFromForm(confirmed) ==
    LET idx == editingIndex
    IN  /\ alertMsg' = NoAlert
        /\ IF idx >= 0 /\ idx < Len(books) /\ confirmed
           THEN /\ books' = Splice(books, idx)
                /\ lsBooks' = saveBooks(books')
                /\ tags' = renderTagControls(tags)
                /\ editingIndex' = 0 - 1
                /\ UNCHANGED <<lastSortKey, sortOrder, lsTags>>
           ELSE UNCHANGED <<books, tags, lastSortKey, sortOrder, lsBooks, lsTags,
                            editingIndex>>

deleteBook(index, confirmed) ==
    /\ alertMsg' = NoAlert
    /\ IF confirmed
       THEN /\ books' = Splice(books, index)
            /\ lsBooks' = saveBooks(books')
            /\ tags' = renderTagControls(tags)
            /\ UNCHANGED <<lastSortKey, sortOrder, lsTags, editingIndex>>
       ELSE UNCHANGED <<books, tags, lastSortKey, sortOrder, lsBooks, lsTags, editingIndex>>

deleteTag(tagName, confirmed) ==
    /\ alertMsg' = NoAlert
    /\ IF findTagByName(tags, tagName) /\ confirmed
       THEN /\ books' = [i \in 1..Len(books) |-> WithoutTag(books[i], tagName)]
            /\ lsBooks' = saveBooks(books')
            /\ tags' = renderTagControls(SelectSeq(tags, LAMBDA t : t.name # tagName))
            /\ lsTags' = saveTags(SelectSeq(tags, LAMBDA t : t.name # tagName))
            /\ UNCHANGED <<lastSortKey, sortOrder, editingIndex>>
       ELSE UNCHANGED <<books, tags, lastSortKey, sortOrder, lsBooks, lsTags, editingIndex>>

\* sortBy that never reverses the direction.
sortBy_noToggle(key) ==
    /\ lastSortKey' = key
    /\ sortOrder' = 1
    /\ books' = SortBooks(books, key, 1)
    /\ lsBooks' = saveBooks(books')
    /\ alertMsg' = NoAlert
    /\ UNCHANGED <<tags, lsTags, editingIndex>>

sortBy(key) ==
    LET order == IF lastSortKey = key THEN 0 - sortOrder ELSE 1
    IN  /\ lastSortKey' = key
        /\ sortOrder' = order
        /\ books' = SortBooks(books, key, order)
        /\ lsBooks' = saveBooks(books')
        /\ alertMsg' = NoAlert
        /\ UNCHANGED <<tags, lsTags, editingIndex>>

\* The document exportBackup offers: JSON.stringify({ books, tags }, null, 2).
exportBackup(bs, ts) ==
    Doc(TRUE, JsonBooks(bs), TRUE,
        [i \in 1..Len(ts) |-> Entry("object", ts[i].name, ts[i].color)])

\* The tag an entry of parsed.tags is mapped to.
ImportedTag(e) ==
    IF e.kind = "string" THEN [name |-> e.name, color |-> colorForTagName(e.name)]
    ELSE [name |-> e.name,
          color |-> IF e.color = NoColor THEN colorForTagName(e.name) ELSE e.color]

\* reader.onload of importBackup on the text of the chosen file.
importBackup(doc) ==
    LET parseFails == ~doc.json \/ ~doc.object
        newBooks   == IF doc.hasBooks THEN doc.books ELSE books
        mapThrows  == doc.hasTags /\ \E i \in 1..Len(doc.tags) : doc.tags[i].kind = "null"
        newTags    == IF doc.hasTags
                      THEN SortTags([i \in 1..Len(doc.tags) |-> ImportedTag(doc.tags[i])])
                      ELSE tags
    IN  /\ Len(doc.books) <= MaxBooks
        /\ IF parseFails
           THEN /\ alertMsg' = ImportErrorAlert
                /\ UNCHANGED <<books, tags, lastSortKey, sortOrder, lsBooks, lsTags,
                               editingIndex>>
           ELSE IF mapThrows
           THEN /\ books' = newBooks
                /\ alertMsg' = ImportErrorAlert
                /\ UNCHANGED <<tags, lastSortKey, sortOrder, lsBooks, lsTags, editingIndex>>
           ELSE /\ books' = newBooks
                /\ tags' = renderTagControls(newTags)
                /\ lsBooks' = saveBooks(newBooks)
                /\ lsTags' = saveTags(newTags)
                /\ alertMsg' = ImportOkAlert
                /\ UNCHANGED <<lastSortKey, sortOrder, editingIndex>>

-----------------------------------------------------------------------------

Next ==
    \/ \E tagName \in DeleteTagInputs, confirmed \in BOOLEAN : deleteTag(tagName, confirmed)
    \/ \E val \in NewTagInputs : addCustomTagFromInput(val)
    \/ \E index \in IndexInputs : openForm("edit", index)
    \/ openForm("add", 0 - 1)
    \/ closeForm
    \/ \E t \in CoreTitleInputs, a \in AuthorInputs, y \in YearInputs, l \in LinkInputs,
          c \in CheckedInputs : saveForm(t, a, y, l, c)
    \/ \E confirmed \in BOOLEAN : deleteFromForm(confirmed)
    \/ \E index \in IndexInputs, confirmed \in BOOLEAN : deleteBook(index, confirmed)
    \/ \E key \in SortKeys : sortBy(key)
    \/ \E doc \in ImportDocs \cup {exportBackup(books, tags)} : importBackup(doc)
    \/ Reload

Spec == Init /\ [][Next]_vars

\* The form and the book list alone.
NextForm ==
    \/ \E index \in IndexInputs : openForm("edit", index)
    \/ openForm("add", 0 - 1)
    \/ closeForm
    \/ \E t \in TitleInputs, a \in AuthorInputs, y \in YearInputs, l \in LinkInputs,
          c \in CheckedInputs : saveForm(t, a, y, l, c)
    \/ \E confirmed \in BOOLEAN : deleteFromForm(confirmed)
    \/ \E tagName \in DeleteTagInputs, confirmed \in BOOLEAN : deleteTag(tagName, confirmed)

SpecForm == Init /\ [][NextForm]_vars

\* Adding, deleting and sorting books, and reloading the page.
NextSort ==
    \/ \E t \in TitleInputs, a \in AuthorInputs, y \in YearInputs, l \in LinkInputs,
          c \in CheckedInputs : saveForm(t, a, y, l, c)
    \/ \E index \in IndexInputs, confirmed \in BOOLEAN : deleteBook(index, confirmed)
    \/ \E key \in SortKeys : sortBy(key)
    \/ Reload

SpecSort == Init /\ [][NextSort]_vars

-----------------------------------------------------------------------------
(* Properties *)

ValidDraft(t, a) == Trim(t) # <<>> /\ Trim(a) # <<>>

InBounds(i, bs) == i >= 0 /\ i < Len(bs)

\* bs without its element at the 0-based position i.
RemoveAt(bs, i) == [j \in 1..(Len(bs) - 1) |-> IF j <= i THEN bs[j] ELSE bs[j + 1]]

\* C1: in every reachable state the tag list is sorted ascending by name
\* and no two tags share a name (the names are strictly ascending).
C1_TagsSortedUnique ==
    \A i \in 1..Len(tags), j \in 1..Len(tags) :
        i < j => localeCompare(tags[i].name, tags[j].name) < 0

\* C2: an import reported as failed ("Invalid JSON file.") leaves the book
\* list and the tag list exactly as they were.
C2_FailedImportChangesNothing ==
    [][alertMsg' = ImportErrorAlert => books' = books /\ tags' = tags]_vars

\* C3: in every reachable state every tag name of every book names a tag
\* of the tag list.
C3_BookTagsExist ==
    \A i \in 1..Len(books) : \A j \in 1..Len(books[i].tags) :
        books[i].tags[j] \in TagNames(tags)

\* C4: saving a valid draft while the edited index is outside 0..len-1
\* (the stale index of a book that no longer exists) mutates nothing.
C4_StaleUpdateChangesNothing ==
    [][\A t \in TitleInputs, a \in AuthorInputs, y \in YearInputs, l \in LinkInputs,
          c \in CheckedInputs :
            (editingIndex >= Len(books) /\ ValidDraft(t, a) /\ saveForm(t, a, y, l, c))
                => books' = books]_vars

\* C5: deleteBook(index) leaves the book list alone when index is outside
\* 0..len-1 or the confirmation is declined, and removes exactly the book
\* at index otherwise; deleteFromForm likewise on the edited index.
C5_DeleteOnlyInBounds ==
    [][/\ \A i \in IndexInputs, c \in BOOLEAN :
            deleteBook(i, c)
                => books' = IF c /\ InBounds(i, books) THEN RemoveAt(books, i) ELSE books
       /\ \A c \in BOOLEAN :
            deleteFromForm(c)
                => books' = IF c /\ InBounds(editingIndex, books)
                            THEN RemoveAt(books, editingIndex) ELSE books]_vars

\* C6: saving a draft whose title or author is empty once trimmed is
\* answered by the validation message and leaves the book list, the tag
\* list and both storage slots as they were; and no step that ends in the
\* validation message changes any of them.
C6_InvalidDraftChangesNothing ==
    [][/\ \A t \in TitleInputs, a \in AuthorInputs, y \in YearInputs, l \in LinkInputs,
             c \in CheckedInputs :
               (~ValidDraft(t, a) /\ saveForm(t, a, y, l, c))
                   => /\ alertMsg' = ValidationAlert
                      /\ UNCHANGED <<books, tags, lsBooks, lsTags>>
       /\ alertMsg' = ValidationAlert => UNCHANGED <<books, tags, lsBooks, lsTags>>]_vars

\* A rejected draft, with a book in the list and in its slot.
C6_Witness ==
    /\ alertMsg = ValidationAlert
    /\ Len(books) >= 1
    /\ lsBooks.present

\* C7: a confirmed deleteTag of a name of the tag list removes the name
\* from every book's tags, leaves the books otherwise and the other tags
\* as they were and shortens the tag list by exactly one; deleteTag of a
\* name that is not in the list changes nothing.
C7_DeleteTagRemovesOne ==
    [][\A n \in DeleteTagInputs :
          deleteTag(n, TRUE)
              => IF n \in TagNames(tags)
                 THEN /\ Len(tags') = Len(tags) - 1
                      /\ \A i \in 1..Len(tags) : tags[i].name # n =>
                             \E k \in 1..Len(tags') : tags'[k] = tags[i]
                      /\ Len(books') = Len(books)
                      /\ \A i \in 1..Len(books) :
                             /\ books'[i] = [books[i] EXCEPT !.tags = books'[i].tags]
                             /\ books'[i].tags = SelectSeq(books[i].tags, LAMBDA x : x # n)
                 ELSE books' = books /\ tags' = tags]_vars

\* The number of positions of bs that hold b.
Count(bs, b) == Cardinality({i \in 1..Len(bs) : bs[i] = b})

IsPermutation(as, bs) ==
    /\ Len(as) = Len(bs)
    /\ \A i \in 1..Len(bs) : Count(as, bs[i]) = Count(bs, bs[i])

\* The lower-cased text of field key of b.
LowerKey(b, key) ==
    LET v == IF key = "title" THEN b.title
             ELSE IF b.year.t = "num" THEN DecStr(b.year.n)
             ELSE IF b.year.t = "inf" THEN InfinityText
             ELSE b.year.s
    IN  [i \in 1..Len(v) |-> IF v[i] \in 65..90 THEN v[i] + 32 ELSE v[i]]

\* bs is in the order dir (1 ascending, -1 descending) of the field key.
OrderedBy(bs, key, dir) ==
    \A i \in 1..Len(bs), j \in 1..Len(bs) :
        i < j => dir * CodeUnitCompare(LowerKey(bs[i], key), LowerKey(bs[j], key)) <= 0

\* C8: sortBy(key) leaves the book list a permutation of what it was, in
\* the order of the lower-cased field: ascending when key is not the key of
\* the previous sortBy call, otherwise opposite to the previous call.
\* lastSortKey and sortOrder hold the key and direction of the previous
\* call: sortBy sets them and only it (and a reload) changes them.
C8_SortByOrder ==
    [][/\ \A k \in SortKeys :
            sortBy(k)
                => LET dir == IF lastSortKey = k THEN 0 - sortOrder ELSE 1
                   IN  /\ IsPermutation(books', books)
                       /\ OrderedBy(books', k, dir)
                       /\ lastSortKey' = k
                       /\ sortOrder' = dir
       /\ (~(\E k \in SortKeys : sortBy(k)) /\ ~Reload)
              => UNCHANGED <<lastSortKey, sortOrder>>]_vars

\* Two books in descending order of their titles after a repeated sortBy("title").
C8_Witness ==
    /\ lastSortKey = "title"
    /\ sortOrder = 0 - 1
    /\ Len(books) = 2
    /\ CodeUnitCompare(LowerKey(books[1], "title"), LowerKey(books[2], "title")) > 0

\* C9: importing the document exportBackup produces restores the book list
\* and the tag list of the time of the export.
C9_RoundTrip ==
    [][importBackup(exportBackup(books, tags)) => books' = books /\ tags' = tags]_vars

\* C10: reloading the page yields the book list and the tag list held just
\* before the reload.
C10_ReloadRestores ==
    [][Reload => books' = books /\ tags' = tags]_vars

====
